---- MODULE Spec2Model ----
(***************************************************************************)
(* Blood-donor dashboard (src/data.py): a donor sheet and a download-log   *)
(* sheet in a remote spreadsheet, edited by the handlers of a script that  *)
(* every browser session runs on its own.                                  *)
(*                                                                         *)
(* Text is a sequence of one-character strings, so that the validators    *)
(* and the normalisation are computed character by character.  A sheet is *)
(* the list of rows get_all_values() returns: row 1 is the header, every  *)
(* cell is text (a number written to a cell is read back as its digits).  *)
(***************************************************************************)
EXTENDS Integers, Sequences, FiniteSets, TLC

VARIABLES sheet, log_sheet, pc, form, row, row_index, next_row, msgs, mail

vars == <<sheet, log_sheet, pc, form, row, row_index, next_row, msgs, mail>>

(* ------------------------------ bounds -------------------------------- *)

MaxDonors == 2
MaxLog == 2

(* --------------------------- characters ------------------------------- *)

LowerLetters ==
  <<"a","b","c","d","e","f","g","h","i","j","k","l","m",
    "n","o","p","q","r","s","t","u","v","w","x","y","z">>

UpperLetters ==
  <<"A","B","C","D","E","F","G","H","I","J","K","L","M",
    "N","O","P","Q","R","S","T","U","V","W","X","Y","Z">>

Digits == <<"0","1","2","3","4","5","6","7","8","9">>

LowerSet == { LowerLetters[i] : i \in DOMAIN LowerLetters }
UpperSet == { UpperLetters[i] : i \in DOMAIN UpperLetters }
DigitSet == { Digits[i] : i \in DOMAIN Digits }

\* the tables of str.lower(), str.upper() and int() on one character
LowerOf == [ch \in UpperSet |-> LowerLetters[CHOOSE i \in DOMAIN UpperLetters : UpperLetters[i] = ch]]
UpperOf == [ch \in LowerSet |-> UpperLetters[CHOOSE i \in DOMAIN LowerLetters : LowerLetters[i] = ch]]
DigitOf == [ch \in DigitSet |-> (CHOOSE i \in DOMAIN Digits : Digits[i] = ch) - 1]

IsLowerCh(ch) == ch \in LowerSet
IsUpperCh(ch) == ch \in UpperSet
IsAlphaCh(ch) == IsLowerCh(ch) \/ IsUpperCh(ch)
IsSpaceCh(ch) == ch = " "
IsDigitCh(ch) == ch \in DigitSet

LowerCh(ch) == IF IsUpperCh(ch) THEN LowerOf[ch] ELSE ch

UpperCh(ch) == IF IsLowerCh(ch) THEN UpperOf[ch] ELSE ch

DigitVal(ch) == DigitOf[ch]

(* ----------------------------- str methods ---------------------------- *)

\* str.isalpha(): non-empty and every character a letter
isalpha(s) == Len(s) > 0 /\ \A i \in 1..Len(s) : IsAlphaCh(s[i])

\* str.isdigit(): non-empty and every character a digit
isdigit(s) == Len(s) > 0 /\ \A i \in 1..Len(s) : IsDigitCh(s[i])

\* str.lower()
lower(s) == [i \in 1..Len(s) |-> LowerCh(s[i])]

\* str.capitalize(): first character upper-cased, the rest lower-cased
capitalize(s) ==
  [i \in 1..Len(s) |-> IF i = 1 THEN UpperCh(s[i]) ELSE LowerCh(s[i])]

RECURSIVE lstrip(_)
lstrip(s) ==
  IF Len(s) > 0 /\ IsSpaceCh(s[1]) THEN lstrip(Tail(s)) ELSE s

RECURSIVE rstrip(_)
rstrip(s) ==
  IF Len(s) > 0 /\ IsSpaceCh(s[Len(s)])
  THEN rstrip(SubSeq(s, 1, Len(s) - 1))
  ELSE s

\* str.strip()
strip(s) == rstrip(lstrip(s))

\* length of the leading run of non-space characters
RECURSIVE WordLen(_)
WordLen(s) ==
  IF Len(s) = 0 \/ IsSpaceCh(s[1]) THEN 0 ELSE 1 + WordLen(Tail(s))

\* str.split() with no separator: the maximal runs of non-space characters
RECURSIVE split(_)
split(s) ==
  LET t == lstrip(s)
      n == WordLen(t)
  IN  IF Len(t) = 0 THEN <<>>
      ELSE <<SubSeq(t, 1, n)>> \o split(SubSeq(t, n + 1, Len(t)))

\* sep.join(parts)
RECURSIVE join(_, _)
join(sep, parts) ==
  IF Len(parts) = 0 THEN <<>>
  ELSE IF Len(parts) = 1 THEN parts[1]
  ELSE parts[1] \o sep \o join(sep, Tail(parts))

\* int(s) of a digit string
RECURSIVE int(_)
int(s) ==
  IF Len(s) = 0 THEN 0
  ELSE 10 * int(SubSeq(s, 1, Len(s) - 1)) + DigitVal(s[Len(s)])

\* the text a numeric cell is read back as
RECURSIVE str(_)
str(n) ==
  IF n < 10 THEN <<Digits[n + 1]>>
  ELSE str(n \div 10) \o <<Digits[(n % 10) + 1]>>

(* ------------------------------ the sheet ----------------------------- *)

Header ==
  << <<"n","a","m","e">>, <<"a","g","e">>,
     <<"b","l","o","o","d","_","g","r","o","u","p">>,
     <<"c","o","n","t","a","c","t">>,
     <<"l","o","c","a","t","i","o","n">> >>

LogHeader ==
  << <<"r","e","c","i","p","i","e","n","t">>,
     <<"b","l","o","o","d","_","g","r","o","u","p","_","f","i","l","t","e","r">>,
     <<"l","o","c","a","t","i","o","n","_","f","i","l","t","e","r">>,
     <<"t","i","m","e","s","t","a","m","p">> >>

\* columns of a donor row
cName == 1
cAge == 2
cBlood == 3
cContact == 4
cLocation == 5

EmptyRow == << <<>>, <<>>, <<>>, <<>>, <<>> >>

IsEmptyRow(r) == \A i \in 1..Len(r) : r[i] = <<>>

\* get_all_values() returns the rows up to the last one that holds a value
RECURSIVE TrimRows(_)
TrimRows(sh) ==
  IF Len(sh) > 0 /\ IsEmptyRow(sh[Len(sh)])
  THEN TrimRows(SubSeq(sh, 1, Len(sh) - 1))
  ELSE sh

SheetUpdate_Append(sh, r, values) == Append(sh, values)

\* worksheet.update("A{r}:E{r}", [values]): the cells of row r are overwritten;
\* a row past the end leaves the rows between empty
SheetUpdate(sh, r, values) ==
  TrimRows([i \in 1..(IF r > Len(sh) THEN r ELSE Len(sh)) |->
              IF i = r THEN values
              ELSE IF i <= Len(sh) THEN sh[i]
              ELSE EmptyRow])

\* worksheet.delete_rows(r): row r is removed, the rows below move up
SheetDeleteRows(sh, r) ==
  TrimRows([i \in 1..(IF r <= Len(sh) THEN Len(sh) - 1 ELSE Len(sh)) |->
              IF i < r THEN sh[i] ELSE sh[i + 1]])

\* get_donors(): every row but the first
get_donors(sh) == IF Len(sh) > 1 THEN Tail(sh) ELSE <<>>

(* ----------------------------- validators ----------------------------- *)

\* line 138: non-empty, every character a letter or a space
name_valid(name) ==
  Len(name) > 0 /\ \A i \in 1..Len(name) : IsAlphaCh(name[i]) \/ IsSpaceCh(name[i])

MinAge == 18
MaxAge == 65
ContactLen == 10
MaxLocationLen == 20

\* line 139
age_valid(age) ==
  IF Len(age) > 0
  THEN isdigit(age) /\ MinAge <= int(age) /\ int(age) <= MaxAge
  ELSE FALSE

\* line 141
contact_valid(contact) ==
  IF Len(contact) > 0
  THEN isdigit(contact) /\ Len(contact) = ContactLen
  ELSE FALSE

\* line 142
location_valid(location) ==
  IF Len(location) > 0
  THEN isalpha(location) /\ Len(location) <= MaxLocationLen
  ELSE FALSE

BloodGroups ==
  { <<"A","+">>, <<"A","-">>, <<"B","+">>, <<"B","-">>,
    <<"O","+">>, <<"O","-">>, <<"A","B","+">>, <<"A","B","-">> }

\* line 140: the select box always holds one of the eight groups
blood_group_valid(blood_group) == Len(blood_group) > 0

\* line 144
all_valid(name, age, blood_group, contact, location) ==
  /\ name_valid(name)
  /\ age_valid(age)
  /\ blood_group_valid(blood_group)
  /\ contact_valid(contact)
  /\ location_valid(location)

\* lines 147-154: the inline errors of the add form
InlineErrors(name, age, contact, location) ==
     (IF Len(name) > 0 /\ ~name_valid(name) THEN {"name must be alphabetic"} ELSE {})
  \cup (IF Len(age) > 0 /\ ~age_valid(age) THEN {"age must be between 18 and 65"} ELSE {})
  \cup (IF Len(contact) > 0 /\ ~contact_valid(contact) THEN {"phone must be 10 digits"} ELSE {})
  \cup (IF Len(location) > 0 /\ ~location_valid(location) THEN {"location must be alphabetic"} ELSE {})

(* --------------------------- donor handlers --------------------------- *)

Space == <<" ">>

\* line 161: " ".join(part.capitalize() for part in name.strip().split())
NormalizeName(name) ==
  LET parts == split(strip(name))
  IN  join(Space, [i \in 1..Len(parts) |-> capitalize(parts[i])])

\* line 162: location.strip().capitalize()
NormalizeLocation(location) == capitalize(strip(location))

\* line 165: the rows of df with the same lower-cased name and the same contact
Duplicates(df, name, contact) ==
  { i \in 1..Len(df) : lower(df[i][cName]) = lower(name) /\ df[i][cContact] = contact }

AddIsDuplicate_CaseSensitive(df, name, contact) ==
  \E i \in 1..Len(df) : df[i][cName] = name /\ df[i][cContact] = contact

\* line 166
AddIsDuplicate(df, name, contact) == Duplicates(df, name, contact) # {}

UpdateIsConflict_Unchecked(df, donor, new_name, new_contact) == FALSE

UpdateIsConflict_NoSelf(df, donor, new_name, new_contact) ==
  \E i \in 1..Len(df) : lower(df[i][cName]) = lower(new_name) /\ df[i][cContact] = new_contact

\* line 271: a duplicate exists and the edited row does not keep its own identity
UpdateIsConflict(df, donor, new_name, new_contact) ==
  /\ Duplicates(df, new_name, new_contact) # {}
  /\ ~(lower(donor[cName]) = lower(new_name) /\ donor[cContact] = new_contact)

\* line 269: the only check the update form makes on its values
UpdateValuesOk(new_name, new_age, new_contact, new_location) ==
  Len(new_name) > 0 /\ isdigit(new_age) /\ Len(new_contact) > 0 /\ Len(new_location) > 0

NextRow_LastRow(sh) == Len(sh)

\* line 169: next_row = len(sheet.get_all_values()) + 1
NextRow(sh) == Len(sh) + 1

SheetRowOf_NoHeader(k) == k

\* lines 274 and 296: the sheet row of donor number row_index (row 1 is the header)
SheetRowOf(k) == k + 1

\* lines 77-79
update_donor(sh, r, new_values) == SheetUpdate(sh, r, new_values)

\* lines 81-83
delete_donor(sh, r) == SheetDeleteRows(sh, r)

\* lines 254 and 288
IndexOk(df, k) == Len(df) > 0 /\ k <= Len(df)

NoRow == <<>>

\* the widgets of a form that is not being submitted
NoForm == [name |-> <<>>, age |-> <<>>, blood_group |-> <<>>, contact |-> <<>>, location |-> <<>>]

\* "Add Donor" is pressed: the script runs again with the values of the form
SubmitAdd(s, f) ==
  /\ pc[s] = "idle"
  /\ Len(sheet) - 1 < MaxDonors
  /\ pc' = [pc EXCEPT ![s] = "add_check"]
  /\ form' = [form EXCEPT ![s] = f]
  /\ msgs' = [msgs EXCEPT ![s] = {}]
  /\ UNCHANGED <<sheet, log_sheet, row, row_index, next_row, mail>>

\* lines 138-167: validation, normalisation, the read of the table and the
\* duplicate check
AddCheck(s) ==
  /\ pc[s] = "add_check"
  /\ LET f  == form[s]
         n  == NormalizeName(f.name)
         l  == NormalizeLocation(f.location)
         df == get_donors(sheet)
     IN  IF ~all_valid(f.name, f.age, f.blood_group, f.contact, f.location)
         THEN /\ msgs' = [msgs EXCEPT ![s] = InlineErrors(f.name, f.age, f.contact, f.location)]
              /\ pc' = [pc EXCEPT ![s] = "idle"]
              /\ UNCHANGED row
         ELSE IF AddIsDuplicate(df, n, f.contact)
         THEN /\ msgs' = [msgs EXCEPT ![s] = {"donor already exists"}]
              /\ pc' = [pc EXCEPT ![s] = "idle"]
              /\ UNCHANGED row
         ELSE /\ pc' = [pc EXCEPT ![s] = "add_count"]
              /\ row' = [row EXCEPT ![s] = <<n, str(int(f.age)), f.blood_group, f.contact, l>>]
              /\ UNCHANGED msgs
  /\ form' = [form EXCEPT ![s] = NoForm]
  /\ UNCHANGED <<sheet, log_sheet, row_index, next_row, mail>>

\* line 169: the second read, which gives the row to write (the guard on the
\* length bounds the table when sessions interleave)
AddCount(s) ==
  /\ pc[s] = "add_count"
  /\ Len(sheet) - 1 <= MaxDonors
  /\ next_row' = [next_row EXCEPT ![s] = NextRow(sheet)]
  /\ pc' = [pc EXCEPT ![s] = "add_write"]
  /\ UNCHANGED <<sheet, log_sheet, form, row, row_index, msgs, mail>>

\* lines 170-172
AddWrite(s) ==
  /\ pc[s] = "add_write"
  /\ sheet' = SheetUpdate(sheet, next_row[s], row[s])
  /\ msgs' = [msgs EXCEPT ![s] = {"donor added"}]
  /\ pc' = [pc EXCEPT ![s] = "idle"]
  /\ row' = [row EXCEPT ![s] = NoRow]
  /\ next_row' = [next_row EXCEPT ![s] = 0]
  /\ UNCHANGED <<log_sheet, form, row_index, mail>>

\* "Apply Update" is pressed for row number k with the values of the form
SubmitUpdate(s, k, f) ==
  /\ pc[s] = "idle"
  /\ pc' = [pc EXCEPT ![s] = "upd_check"]
  /\ row_index' = [row_index EXCEPT ![s] = k]
  /\ form' = [form EXCEPT ![s] = f]
  /\ msgs' = [msgs EXCEPT ![s] = {}]
  /\ UNCHANGED <<sheet, log_sheet, row, next_row, mail>>

\* lines 250-272: the read of the table, the check of the index and of the
\* values, the duplicate check
UpdateCheck(s) ==
  /\ pc[s] = "upd_check"
  /\ LET f  == form[s]
         k  == row_index[s]
         df == get_donors(sheet)
     IN  IF ~IndexOk(df, k)
         THEN /\ msgs' = [msgs EXCEPT ![s] = {"invalid donor index"}]
              /\ pc' = [pc EXCEPT ![s] = "idle"]
              /\ UNCHANGED <<row, next_row>>
         ELSE IF ~UpdateValuesOk(f.name, f.age, f.contact, f.location)
         THEN /\ msgs' = [msgs EXCEPT ![s] = {"provide valid update values"}]
              /\ pc' = [pc EXCEPT ![s] = "idle"]
              /\ UNCHANGED <<row, next_row>>
         ELSE IF UpdateIsConflict(df, df[k], f.name, f.contact)
         THEN /\ msgs' = [msgs EXCEPT ![s] = {"another donor already exists"}]
              /\ pc' = [pc EXCEPT ![s] = "idle"]
              /\ UNCHANGED <<row, next_row>>
         ELSE /\ pc' = [pc EXCEPT ![s] = "upd_write"]
              /\ row' = [row EXCEPT ![s] =
                           <<f.name, str(int(f.age)), f.blood_group, f.contact, f.location>>]
              /\ next_row' = [next_row EXCEPT ![s] = SheetRowOf(k)]
              /\ UNCHANGED msgs
  /\ form' = [form EXCEPT ![s] = NoForm]
  /\ UNCHANGED <<sheet, log_sheet, row_index, mail>>

\* lines 274-280
UpdateWrite(s) ==
  /\ pc[s] = "upd_write"
  /\ sheet' = update_donor(sheet, next_row[s], row[s])
  /\ msgs' = [msgs EXCEPT ![s] = {"donor updated"}]
  /\ pc' = [pc EXCEPT ![s] = "idle"]
  /\ row' = [row EXCEPT ![s] = NoRow]
  /\ next_row' = [next_row EXCEPT ![s] = 0]
  /\ UNCHANGED <<log_sheet, form, row_index, mail>>

\* "Confirm Delete" is pressed for row number k
SubmitDelete(s, k) ==
  /\ pc[s] = "idle"
  /\ pc' = [pc EXCEPT ![s] = "del_check"]
  /\ row_index' = [row_index EXCEPT ![s] = k]
  /\ msgs' = [msgs EXCEPT ![s] = {}]
  /\ UNCHANGED <<sheet, log_sheet, form, row, next_row, mail>>

\* lines 250, 288-295: the read of the table, the check of the index and the
\* donor shown for confirmation
DeleteCheck(s) ==
  /\ pc[s] = "del_check"
  /\ LET df == get_donors(sheet)
     IN  IF ~IndexOk(df, row_index[s])
         THEN /\ msgs' = [msgs EXCEPT ![s] = {"invalid donor index"}]
              /\ pc' = [pc EXCEPT ![s] = "idle"]
              /\ UNCHANGED <<row, next_row>>
         ELSE /\ pc' = [pc EXCEPT ![s] = "del_write"]
              /\ row' = [row EXCEPT ![s] = df[row_index[s]]]
              /\ next_row' = [next_row EXCEPT ![s] = SheetRowOf(row_index[s])]
              /\ UNCHANGED msgs
  /\ UNCHANGED <<sheet, log_sheet, form, row_index, mail>>

\* lines 296-299
DeleteWrite(s) ==
  /\ pc[s] = "del_write"
  /\ sheet' = delete_donor(sheet, next_row[s])
  /\ msgs' = [msgs EXCEPT ![s] = {"donor deleted"}]
  /\ pc' = [pc EXCEPT ![s] = "idle"]
  /\ row' = [row EXCEPT ![s] = NoRow]
  /\ next_row' = [next_row EXCEPT ![s] = 0]
  /\ UNCHANGED <<log_sheet, form, row_index, mail>>

(* -------------------------- download handler -------------------------- *)

All == <<"A","l","l">>
AllLocations == <<"A","l","l"," ","L","o","c","a","t","i","o","n","s">>
CommaSpace == <<",", " ">>

\* the time stamp of a request; the clock is not modelled
Timestamp == <<"t","s">>

\* number of "@" in an address
RECURSIVE CountAt(_)
CountAt(s) ==
  IF Len(s) = 0 THEN 0
  ELSE (IF s[1] = "@" THEN 1 ELSE 0) + CountAt(Tail(s))

\* validate_email(recipient), line 93: the syntactic check of the library, here
\* one "@", a non-empty local part, a domain with a dot inside it
validate_email(recipient) ==
  /\ CountAt(recipient) = 1
  /\ LET at == CHOOSE i \in 1..Len(recipient) : recipient[i] = "@"
         domain == SubSeq(recipient, at + 1, Len(recipient))
     IN  /\ at > 1
         /\ \E i \in 2..(Len(domain) - 1) : domain[i] = "."
         /\ \A i \in 1..Len(recipient) : ~IsSpaceCh(recipient[i])

\* the states of the mail transport a request can meet
MailEnv == {"ok", "no_credentials", "smtp_failure"}

\* send_email (lines 91-122): what is reported and what became of the message.
\* Every exception is caught inside, so the caller always continues.
send_email(recipient, csv_data, env) ==
  IF ~validate_email(recipient)
  THEN [msgs |-> {"invalid email address"}, status |-> "rejected", to |-> <<>>, data |-> <<>>]
  ELSE IF env = "no_credentials"
  THEN [msgs |-> {"email credentials not found"}, status |-> "not_attempted", to |-> <<>>, data |-> <<>>]
  ELSE IF env = "smtp_failure"
  THEN [msgs |-> {"failed to send email"}, status |-> "failed", to |-> recipient, data |-> csv_data]
  ELSE [msgs |-> {"email sent"}, status |-> "sent", to |-> recipient, data |-> csv_data]

NoMail == [msgs |-> {}, status |-> "none", to |-> <<>>, data |-> <<>>]

\* x in list
InList(x, list) == \E i \in 1..Len(list) : list[i] = x

\* lines 213-214
FilterBlood(df, blood_group) ==
  IF blood_group # All
  THEN SelectSeq(df, LAMBDA d : d[cBlood] = blood_group)
  ELSE df

FilterLocations_IgnoresAllOption(df, selected_locations) ==
  IF Len(selected_locations) > 0
  THEN SelectSeq(df, LAMBDA d : \E i \in 1..Len(selected_locations) : selected_locations[i] = d[cLocation])
  ELSE df

\* lines 217-219
FilterLocations(df, selected_locations) ==
  IF ~InList(AllLocations, selected_locations)
  THEN IF Len(selected_locations) > 0
       THEN SelectSeq(df, LAMBDA d : InList(d[cLocation], selected_locations))
       ELSE df
  ELSE df

\* lines 212-219: filtered_df
FilterDonors(df, blood_group, selected_locations) ==
  FilterLocations(FilterBlood(df, blood_group), selected_locations)

\* lines 234-237: row_data
LogRow(email_address, blood_group, selected_locations) ==
  << email_address, blood_group,
     IF Len(selected_locations) > 0 THEN join(CommaSpace, selected_locations) ELSE AllLocations,
     Timestamp >>

\* "Send Download" is pressed with the values of the download form
SubmitDownload(s, f) ==
  /\ pc[s] = "idle"
  /\ Len(log_sheet) - 1 < MaxLog
  /\ pc' = [pc EXCEPT ![s] = "dl_check"]
  /\ form' = [form EXCEPT ![s] = f]
  /\ msgs' = [msgs EXCEPT ![s] = {}]
  /\ mail' = [mail EXCEPT ![s] = NoMail]
  /\ UNCHANGED <<sheet, log_sheet, row, row_index, next_row>>

\* lines 187, 203-237: the read of the table, the checks of the form, the
\* filter, the mail and the row to log
DownloadCheck(s, env) ==
  /\ pc[s] = "dl_check"
  /\ LET f    == form[s]
         df   == get_donors(sheet)
         sent == send_email(f.email_address,
                            FilterDonors(df, f.blood_group, f.selected_locations), env)
     IN  IF Len(f.email_address) = 0
         THEN /\ msgs' = [msgs EXCEPT ![s] = {"provide a valid email address"}]
              /\ pc' = [pc EXCEPT ![s] = "idle"]
              /\ form' = [form EXCEPT ![s] = NoForm]
              /\ UNCHANGED <<mail, row>>
         ELSE IF ~f.confirm_send
         THEN /\ msgs' = [msgs EXCEPT ![s] = {"tick the checkbox"}]
              /\ pc' = [pc EXCEPT ![s] = "idle"]
              /\ form' = [form EXCEPT ![s] = NoForm]
              /\ UNCHANGED <<mail, row>>
         ELSE /\ msgs' = [msgs EXCEPT ![s] = sent.msgs \cup {"donor list has been sent"}]
              /\ mail' = [mail EXCEPT ![s] = sent]
              /\ row' = [row EXCEPT ![s] =
                           LogRow(f.email_address, f.blood_group, f.selected_locations)]
              /\ pc' = [pc EXCEPT ![s] = "log_count"]
              /\ UNCHANGED form
  /\ UNCHANGED <<sheet, log_sheet, row_index, next_row>>

\* line 239: next_row = len(log_sheet.get_all_values()) + 1
LogCount(s) ==
  /\ pc[s] = "log_count"
  /\ next_row' = [next_row EXCEPT ![s] = NextRow(log_sheet)]
  /\ pc' = [pc EXCEPT ![s] = "log_write"]
  /\ UNCHANGED <<sheet, log_sheet, form, row, row_index, msgs, mail>>

\* line 240: log_sheet.update(f"A{next_row}:D{next_row}", [row_data])
LogWrite(s) ==
  /\ pc[s] = "log_write"
  /\ log_sheet' = SheetUpdate(log_sheet, next_row[s], row[s])
  /\ pc' = [pc EXCEPT ![s] = "idle"]
  /\ form' = [form EXCEPT ![s] = NoForm]
  /\ row' = [row EXCEPT ![s] = NoRow]
  /\ next_row' = [next_row EXCEPT ![s] = 0]
  /\ UNCHANGED <<sheet, row_index, msgs, mail>>

(* ------------------------------- inputs ------------------------------- *)

Sessions == {1, 2}

Contact1 == <<"0","1","2","3","4","5","6","7","8","9">>
Contact2 == <<"9","8","7","6","5","4","3","2","1","0">>
ContactShort == <<"1","2","3","4","5">>

LongLocation == [i \in 1..(MaxLocationLen + 1) |-> "k"]

OPos == <<"O","+">>
ONeg == <<"O","-">>

\* what is typed into the add form: names and contacts the validator takes,
\* and for each field the values it refuses
AddNames == { <<"a","n">>, <<"A","N">>, <<" ","b"," "," ","c","D">> }
AddContacts == { Contact1, Contact2 }
AddAges == { <<"1","8">>, <<"0","1","8">> }
BadNames == { <<"a","1">>, <<>> }
BadAges == { <<"1","7">>, <<"6","6">>, <<"x">> }
BadContacts == { ContactShort }
BadLocations == { <<"l","1">>, LongLocation }

AddForms ==
  LET f == [name |-> <<"a","n">>, age |-> <<"1","8">>, blood_group |-> OPos,
            contact |-> Contact1, location |-> <<"l","X">>]
  IN  { [f EXCEPT !.name = n, !.contact = c, !.age = a] :
          n \in AddNames, c \in AddContacts, a \in AddAges }
      \cup { [f EXCEPT !.name = n] : n \in BadNames }
      \cup { [f EXCEPT !.age = a] : a \in BadAges }
      \cup { [f EXCEPT !.contact = c] : c \in BadContacts }
      \cup { [f EXCEPT !.location = l] : l \in BadLocations }

\* what is typed over the values the update form shows
UpdNames == { <<"A","n">>, <<"a","n">>, <<"B"," ","C","d">>, <<>> }
UpdAges == { <<"x">> }
UpdContacts == { Contact1, Contact2 }
UpdLocations == { <<"L","9">>, <<>> }

\* lines 259-266: the update form opens with the values of the chosen donor
\* (blank when the index is not one of the table)
ShownForm(df, k) ==
  IF IndexOk(df, k)
  THEN [name |-> df[k][cName], age |-> df[k][cAge],
        blood_group |-> df[k][cBlood], contact |-> df[k][cContact],
        location |-> df[k][cLocation]]
  ELSE [name |-> <<>>, age |-> <<>>, blood_group |-> OPos, contact |-> <<>>, location |-> <<>>]

\* the forms submitted: the shown one, with one field retyped, or with the
\* name and the contact retyped
UpdForms(df, k) ==
  LET f == ShownForm(df, k)
  IN  {f}
      \cup { [f EXCEPT !.name = n] : n \in UpdNames }
      \cup { [f EXCEPT !.age = a] : a \in UpdAges }
      \cup { [f EXCEPT !.location = l] : l \in UpdLocations }
      \cup { [f EXCEPT !.name = n, !.contact = c] : n \in UpdNames, c \in UpdContacts }

(* --------------------------- specifications --------------------------- *)

Init ==
  /\ sheet = <<Header>>
  /\ log_sheet = <<LogHeader>>
  /\ pc = [s \in Sessions |-> "idle"]
  /\ form = [s \in Sessions |-> NoForm]
  /\ row = [s \in Sessions |-> NoRow]
  /\ row_index = [s \in Sessions |-> 1]
  /\ next_row = [s \in Sessions |-> 0]
  /\ msgs = [s \in Sessions |-> {}]
  /\ mail = [s \in Sessions |-> NoMail]

\* the donor handlers of one session
Add(s) ==
  \/ \E f \in AddForms : SubmitAdd(s, f)
  \/ AddCheck(s)
  \/ AddCount(s)
  \/ AddWrite(s)

ApplyUpdate(s) ==
  \/ \E k \in 1..(MaxDonors + 1) : \E f \in UpdForms(get_donors(sheet), k) : SubmitUpdate(s, k, f)
  \/ UpdateCheck(s)
  \/ UpdateWrite(s)

ConfirmDelete(s) ==
  \/ \E k \in 1..(MaxDonors + 1) : SubmitDelete(s, k)
  \/ DeleteCheck(s)
  \/ DeleteWrite(s)

\* one session: every request runs from its read to its write alone
Next == Add(1) \/ ApplyUpdate(1) \/ ConfirmDelete(1)

Spec == Init /\ [][Next]_vars

(* ------------------------ the download requests ------------------------ *)

MaxTable == 3

Loc1 == <<"L","x">>
Loc2 == <<"L","y">>
Age30 == <<"3","0">>

ValidEmail1 == <<"a","@","b",".","c">>
ValidEmail2 == <<"d","@","b",".","c">>
NotAnEmail == <<"n","o","t","-","a","n","-","e","m","a","i","l">>

\* donor number i of a stored table: the i-th letter as its name
DonorRow(i, blood_group, location) ==
  << <<UpperLetters[i]>>, Age30, blood_group, Contact1, location >>

\* the donor tables of up to n rows over two blood groups and two locations
RECURSIVE TablesOf(_)
TablesOf(n) ==
  IF n = 0 THEN { <<>> }
  ELSE LET shorter == TablesOf(n - 1)
       IN  shorter \cup
           { Append(d, DonorRow(n, b, l)) :
               d \in { x \in shorter : Len(x) = n - 1 }, b \in {OPos, ONeg}, l \in {Loc1, Loc2} }

\* a log that holds the rows of n earlier requests
EarlierLog(n) ==
  [i \in 1..(n + 1) |-> IF i = 1 THEN LogHeader ELSE LogRow(ValidEmail2, All, <<>>)]

FilterForms ==
  { [email_address |-> ValidEmail1, blood_group |-> g, selected_locations |-> L, confirm_send |-> TRUE] :
      g \in {All, OPos, ONeg},
      L \in { <<>>, <<Loc1>>, <<Loc2>>, <<Loc2, Loc1>>, <<AllLocations>>, <<AllLocations, Loc1>> } }

Download(s, forms) ==
  \/ \E f \in forms : SubmitDownload(s, f)
  \/ \E env \in MailEnv : DownloadCheck(s, env)
  \/ LogCount(s)
  \/ LogWrite(s)

\* one session asks for a download of a stored table
InitFilter ==
  /\ sheet \in { <<Header>> \o d : d \in TablesOf(MaxTable) }
  /\ log_sheet = EarlierLog(MaxLog - 1)
  /\ pc = [s \in Sessions |-> "idle"]
  /\ form = [s \in Sessions |-> NoForm]
  /\ row = [s \in Sessions |-> NoRow]
  /\ row_index = [s \in Sessions |-> 1]
  /\ next_row = [s \in Sessions |-> 0]
  /\ msgs = [s \in Sessions |-> {}]
  /\ mail = [s \in Sessions |-> NoMail]

NextFilter == Download(1, FilterForms)

SpecFilter == InitFilter /\ [][NextFilter]_vars

LogForms ==
  { [email_address |-> e, blood_group |-> All, selected_locations |-> <<>>, confirm_send |-> c] :
      e \in {<<>>, NotAnEmail, ValidEmail1, ValidEmail2}, c \in BOOLEAN }

\* two sessions ask for downloads; their reads and writes of the log interleave
NextLog == \E s \in Sessions : Download(s, LogForms)

SpecLog == Init /\ [][NextLog]_vars

(* ------------------- two sessions edit the donor table ------------------ *)

ConcAddForms ==
  { [name |-> n, age |-> <<"1","8">>, blood_group |-> OPos, contact |-> Contact1,
     location |-> <<"l","X">>] : n \in { <<"a","n">>, <<" ","b"," "," ","c","D">> } }

ConcUpdForms(df, k) ==
  LET f == ShownForm(df, k)
  IN  { [f EXCEPT !.location = Loc2] }

NextConc ==
  \E s \in Sessions :
    \/ \E f \in ConcAddForms : SubmitAdd(s, f)
    \/ AddCheck(s)
    \/ AddCount(s)
    \/ AddWrite(s)
    \/ \E k \in 1..MaxDonors : \E f \in ConcUpdForms(get_donors(sheet), k) : SubmitUpdate(s, k, f)
    \/ UpdateCheck(s)
    \/ UpdateWrite(s)
    \/ \E k \in 1..MaxDonors : SubmitDelete(s, k)
    \/ DeleteCheck(s)
    \/ DeleteWrite(s)

SpecConc == Init /\ [][NextConc]_vars


(* ------------------- properties of the donor handlers ------------------ *)

Donors == get_donors(sheet)

\* the name a submitted form stands for, lower-cased: its words, one space apart
RecordName(raw) == lower(join(Space, split(raw)))

\* the table holds a row with the (lower-cased name, contact) of the form
HasIdentity(sh, f) ==
  \E i \in 2..Len(sh) : lower(sh[i][cName]) = RecordName(f.name) /\ sh[i][cContact] = f.contact

FormValid(f) == all_valid(f.name, f.age, f.blood_group, f.contact, f.location)

\* a word with its first letter upper-case and the others lower-case
IsCapitalWord(w) ==
  Len(w) > 0 /\ IsUpperCh(w[1]) /\ \A j \in 2..Len(w) : IsLowerCh(w[j])

\* r is the record of form f: the words of the name title-cased and one space
\* apart, the location capitalized, the other fields as typed
IsRecordOf(r, f) ==
  LET typed == split(f.name)
      kept  == split(r[cName])
  IN  /\ Len(kept) = Len(typed)
      /\ \A i \in 1..Len(kept) : IsCapitalWord(kept[i]) /\ lower(kept[i]) = lower(typed[i])
      /\ r[cName] = join(Space, kept)
      /\ IsCapitalWord(r[cLocation])
      /\ lower(r[cLocation]) = lower(f.location)
      /\ isdigit(r[cAge]) /\ int(r[cAge]) = int(f.age)
      /\ r[cBlood] = f.blood_group
      /\ r[cContact] = f.contact

\* C1: no two rows of the donor table share the (lower-cased name, contact)
\* pair, whatever Add, Apply-Update and Confirm-Delete requests one session made.
C1_UniqueIdentity ==
  \A i, j \in 1..Len(Donors) :
    i # j => ~(lower(Donors[i][cName]) = lower(Donors[j][cName])
               /\ Donors[i][cContact] = Donors[j][cContact])

C1_Witness ==
  /\ msgs[1] = {"donor updated"}
  /\ Len(Donors) >= 2
  /\ \E i, j \in 1..Len(Donors) :
       i # j /\ lower(Donors[i][cName]) = lower(Donors[j][cName])
             /\ Donors[i][cContact] # Donors[j][cContact]

\* C2: every stored donor row has an age in [18,65], a contact of exactly 10
\* digits, a name of letters and spaces only and an alphabetic location of at
\* most 20 characters (every write passed the validator).
C2_StoredRowsValid ==
  \A i \in 1..Len(Donors) :
    LET d == Donors[i]
    IN  /\ \A j \in 1..Len(d[cName]) : IsAlphaCh(d[cName][j]) \/ IsSpaceCh(d[cName][j])
        /\ isdigit(d[cAge]) /\ int(d[cAge]) >= 18 /\ int(d[cAge]) <= 65
        /\ Len(d[cContact]) = 10 /\ \A j \in 1..10 : IsDigitCh(d[cContact][j])
        /\ Len(d[cLocation]) <= 20
        /\ \A j \in 1..Len(d[cLocation]) : IsAlphaCh(d[cLocation][j])

\* C4: a valid Add whose (lower-cased name, contact) is already in the table is
\* refused with the duplicate message and writes nothing: the table keeps
\* its rows, their order and its size.
C4_DuplicateAddRejected ==
  [][(AddCheck(1) /\ FormValid(form[1]) /\ HasIdentity(sheet, form[1]))
       => (/\ msgs'[1] = {"donor already exists"}
           /\ pc'[1] = "idle"
           /\ row'[1] = NoRow
           /\ sheet' = sheet)]_vars

C4_Witness ==
  /\ msgs[1] = {"donor already exists"}
  /\ pc[1] = "idle"
  /\ Len(Donors) >= 1

\* C5: a valid Add of a record that duplicates no row goes on to write, and
\* its write puts the normalised record after the rows of the table: the
\* table read afterwards is the old one followed by the record, which occurs
\* in it once.
C5_AddThenRead ==
  [][/\ (AddCheck(1) /\ FormValid(form[1]) /\ ~HasIdentity(sheet, form[1]))
          => (pc'[1] = "add_count" /\ IsRecordOf(row'[1], form[1]))
     /\ AddCount(1) => (row'[1] = row[1] /\ sheet' = sheet)
     /\ AddWrite(1) =>
          (/\ sheet'[1] = sheet[1]
           /\ get_donors(sheet') = Append(Donors, row[1])
           /\ Cardinality({i \in 2..Len(sheet') : sheet'[i] = row[1]}) = 1)]_vars

C5_Witness ==
  /\ msgs[1] = {"donor added"}
  /\ Len(Donors) >= 2
  /\ Donors[Len(Donors)][cName] = <<"B"," ","C","d">>
  /\ Donors[Len(Donors)][cLocation] = <<"L","x">>

\* C6: Confirm-Delete with row number k, 1 <= k <= n, removes the k-th donor
\* record and nothing else: the header stays, n-1 records are left, records
\* 1..k-1 stay and each record j > k is at position j-1.
C6_DeleteRemovesRowK ==
  [][/\ (DeleteCheck(1) /\ 1 <= row_index[1] /\ row_index[1] <= Len(Donors))
          => (pc'[1] = "del_write" /\ sheet' = sheet)
     /\ DeleteWrite(1) =>
          LET k  == row_index[1]
              d  == Donors
              d2 == get_donors(sheet')
          IN  /\ 1 <= k /\ k <= Len(d)
              /\ sheet'[1] = Header
              /\ Len(d2) = Len(d) - 1
              /\ \A j \in 1..(k - 1) : d2[j] = d[j]
              /\ \A j \in (k + 1)..Len(d) : d2[j - 1] = d[j]]_vars

C6_Witness ==
  /\ msgs[1] = {"donor deleted"}
  /\ row_index[1] = 1
  /\ Len(Donors) >= 1

\* the form keeps the (lower-cased name, contact) of the donor it edits
KeepsIdentity(f, donor) ==
  lower(f.name) = lower(donor[cName]) /\ f.contact = donor[cContact]

\* the form has the (lower-cased name, contact) of a row other than row k
TakesIdentityOfOther(f, d, k) ==
  \E j \in 1..Len(d) :
    j # k /\ lower(f.name) = lower(d[j][cName]) /\ f.contact = d[j][cContact]

FormValues(f) == <<f.name, str(int(f.age)), f.blood_group, f.contact, f.location>>

\* the write of an accepted update replaces row k and no other row
C7_WriteReplacesRowK ==
  UpdateWrite(1) =>
    /\ Len(sheet') = Len(sheet)
    /\ \A i \in 1..Len(sheet) :
         sheet'[i] = IF i = row_index[1] + 1 THEN row[1] ELSE sheet[i]

\* an update that takes the identity of another row is refused, table unchanged
C7_ConflictRefused ==
  (/\ UpdateCheck(1)
   /\ IndexOk(Donors, row_index[1])
   /\ ~KeepsIdentity(form[1], Donors[row_index[1]])
   /\ TakesIdentityOfOther(form[1], Donors, row_index[1]))
  => (/\ pc'[1] = "idle" /\ row'[1] = NoRow /\ sheet' = sheet
      /\ msgs'[1] \in {{"another donor already exists"}, {"provide valid update values"}})

\* C7 as stated: every Apply-Update that keeps the name and the contact of row
\* k skips the duplicate rejection and overwrites row k with the new values;
\* one that takes the pair of a different row is refused, table unchanged.
C7_AsStated ==
  [][/\ (/\ UpdateCheck(1)
         /\ IndexOk(Donors, row_index[1])
         /\ KeepsIdentity(form[1], Donors[row_index[1]]))
        => (/\ "another donor already exists" \notin msgs'[1]
            /\ pc'[1] = "upd_write"
            /\ row'[1] = FormValues(form[1]))
     /\ C7_WriteReplacesRowK
     /\ C7_ConflictRefused]_vars

\* C7, amended: an Apply-Update that keeps the name and the contact of row k
\* never takes the duplicate rejection; when its values pass the check of the
\* update form (name, contact and location not empty, age all digits) it
\* overwrites row k with them, otherwise it is refused for its values and
\* writes nothing; one that takes the pair of a different row is refused,
\* table unchanged.
C7_UpdateKeepsIdentity ==
  [][/\ (/\ UpdateCheck(1)
         /\ IndexOk(Donors, row_index[1])
         /\ KeepsIdentity(form[1], Donors[row_index[1]]))
        => /\ "another donor already exists" \notin msgs'[1]
           /\ IF /\ Len(form[1].name) > 0 /\ isdigit(form[1].age)
                 /\ Len(form[1].contact) > 0 /\ Len(form[1].location) > 0
              THEN /\ pc'[1] = "upd_write"
                   /\ row'[1] = FormValues(form[1])
              ELSE /\ msgs'[1] = {"provide valid update values"}
                   /\ pc'[1] = "idle" /\ row'[1] = NoRow /\ sheet' = sheet
     /\ C7_WriteReplacesRowK
     /\ C7_ConflictRefused]_vars

C7_Witness ==
  /\ msgs[1] = {"donor updated"}
  /\ Len(Donors) >= 2
  /\ row_index[1] <= Len(Donors)
  /\ Donors[row_index[1]][cLocation] = <<"L","9">>

(* ------------------ properties of the download requests ----------------- *)

\* C3: a download request with the checkbox ticked and an address that fails
\* the syntactic check reports an error, attempts no send and leaves the log
\* table as it was.
C3_InvalidEmailNoLog ==
  [][\A s \in Sessions :
       /\ \A env \in MailEnv :
            (/\ DownloadCheck(s, env)
             /\ Len(form[s].email_address) > 0
             /\ form[s].confirm_send
             /\ ~validate_email(form[s].email_address))
            => (/\ "invalid email address" \in msgs'[s]
                /\ mail'[s].status \notin {"sent", "failed"})
       /\ (LogWrite(s) /\ ~validate_email(form[s].email_address))
            => log_sheet' = log_sheet]_vars

\* the donor matches the blood-group filter g and the selected locations L
Matches(d, g, L) ==
  /\ g = All \/ d[cBlood] = g
  /\ \/ Len(L) = 0
     \/ \E i \in 1..Len(L) : L[i] = AllLocations
     \/ \E i \in 1..Len(L) : L[i] = d[cLocation]

\* the matching donors of table d, in table order
Export(d, g, L) ==
  LET P == { i \in 1..Len(d) : Matches(d[i], g, L) }
  IN  [j \in 1..Cardinality(P) |->
         d[CHOOSE i \in P : Cardinality({ q \in P : q <= i }) = j]]

NamesOf(d) == [i \in 1..Len(d) |-> d[i][cName]]

ExampleTable ==
  << DonorRow(1, OPos, Loc1), DonorRow(2, ONeg, Loc2), DonorRow(3, OPos, Loc2) >>

\* C8: the exported list is exactly the donors d with (g = "All" or
\* d.blood_group = g) and (L empty or "All Locations" in L or d.location in L),
\* in table order; for [(A,O+,Loc1),(B,O-,Loc2),(C,O+,Loc2)], g = "O+" gives
\* A,C; L = {Loc2} gives B,C; both give C.
C8_FilterExact ==
  (pc[1] \in {"log_count", "log_write"} /\ mail[1].status \in {"sent", "failed"})
  => LET g == form[1].blood_group
         L == form[1].selected_locations
     IN  /\ mail[1].data = Export(Donors, g, L)
         /\ Donors = ExampleTable =>
              /\ (g = OPos /\ L = <<>>) => NamesOf(mail[1].data) = << <<"A">>, <<"C">> >>
              /\ (g = All /\ L = <<Loc2>>) => NamesOf(mail[1].data) = << <<"B">>, <<"C">> >>
              /\ (g = OPos /\ L = <<Loc2>>) => NamesOf(mail[1].data) = << <<"C">> >>

C8_Witness ==
  /\ pc[1] = "log_write"
  /\ mail[1].status = "sent"
  /\ Donors = ExampleTable
  /\ form[1].blood_group = OPos
  /\ form[1].selected_locations = <<Loc2>>
  /\ NamesOf(mail[1].data) = << <<"C">> >>

\* C9: the log table is append-only: a row once written stays, with its
\* content, at its position, also when the requests of two sessions interleave.
C9_LogAppendOnly ==
  [][\A i \in 1..Len(log_sheet) :
       i <= Len(log_sheet') /\ log_sheet'[i] = log_sheet[i]]_vars

(* --------------------- properties of two sessions ---------------------- *)

\* C10: donor writes are not protected against another session's write
\* between the read and the write.  An Add whose row was taken meanwhile
\* overwrites that row and reports success; a Confirm-Delete whose row holds
\* another record than the one shown removes that other record and reports
\* success.
C10_LastWriterWins ==
  [][\A s \in Sessions :
       /\ (AddWrite(s) /\ next_row[s] <= Len(sheet))
            => (/\ Len(sheet') = Len(sheet)
                /\ \A i \in 1..Len(sheet) :
                     sheet'[i] = IF i = next_row[s] THEN row[s] ELSE sheet[i]
                /\ msgs'[s] = {"donor added"})
       /\ (DeleteWrite(s) /\ next_row[s] <= Len(sheet) /\ sheet[next_row[s]] # row[s])
            => (/\ Len(sheet') < Len(sheet)
                /\ \A i \in 1..Len(sheet') :
                     sheet'[i] = IF i < next_row[s] THEN sheet[i] ELSE sheet[i + 1]
                /\ msgs'[s] = {"donor deleted"})]_vars

\* a session has added its record and reported success, and the other session
\* holds a write of another record to the same row
C10_Witness ==
  \E s, u \in Sessions :
    /\ s # u
    /\ pc[s] = "idle" /\ msgs[s] = {"donor added"}
    /\ pc[u] = "add_write"
    /\ next_row[u] = Len(sheet)
    /\ sheet[next_row[u]] # row[u]
    /\ sheet[next_row[u]][cName] = <<"A","n">>

====
